---- MODULE Spec2Model ----
(***************************************************************************)
(* msys2-autobuild (src/autobuild.py): the queue classifier                *)
(* (get_packages_to_build), the dependency stager (staging_dependencies,   *)
(* backup_pacman_conf), the build runner (build_package, run_build) and    *)
(* the artifact store client (get_release_assets, upload_asset).           *)
(*                                                                         *)
(* Strings are sequences of tokens, so that formatting a name or a pattern *)
(* is concatenation and fnmatch is a glob match over the tokens.           *)
(***************************************************************************)
EXTENDS Integers, Sequences, FiniteSets, TLC

VARIABLES
    queue,      \* the build queue as served by the API (list of package descriptors)
    chan,       \* release channel -> set of assets [name, uploader]
    user,       \* the authenticated identity (gh.get_user())
    conf,       \* content of /etc/pacman.conf, a sequence of lines
    backup,     \* /etc/pacman.conf.backup: [exists, text]
    repo_root,  \* <builddir>/_REPO: [exists, files], files are [dir, name]
    now,        \* wall clock, in units since the program started
    pc,         \* position of run_build / build_package / staging_dependencies
    i,          \* index into todo of the package being processed
    done,       \* get_packages_to_build()[0], as queue indexes
    skipped,    \* get_packages_to_build()[1], as [pkg, reason]
    todo,       \* get_packages_to_build()[2], as queue indexes
    to_add,     \* staging_dependencies.to_add, as [repo_type, name]
    next_add,   \* index into to_add of the asset add_to_repo is called for next
    exc,        \* the exception propagating out of the current attempt
    origin,     \* the first exception raised in the current attempt
    phases,     \* the makepkg phases started in the current attempt
    last,       \* what run_build saw of the most recent attempt
    fatal,      \* the exception that ended the run, if any
    uploaded,   \* assets this run published: [type, name, pkg]
    conf0,      \* content of /etc/pacman.conf when the program started
    steps,      \* the commands and file operations of the current attempt, in order
    calls,      \* the upload_asset calls of the current attempt: [type, name]
    given       \* the most recent makepkg phase of the run, if any: [at, timeout],
                \* the clock when it started and the timeout= it was given

vars == <<queue, chan, user, conf, backup, repo_root, now, pc, i, done, skipped,
          todo, to_add, next_add, exc, origin, phases, last, fatal, uploaded, conf0,
          steps, calls, given>>

(***************************************************************************)
(* Bounds of the model.                                                    *)
(***************************************************************************)
\* assets in staging-msys and staging-mingw together, classifier inputs
MaxAssets == 2
\* failure markers in staging-failed, classifier inputs
MaxMarkers == 1

Range(s) == {s[n] : n \in DOMAIN s}

(***************************************************************************)
(* Constants of the program.                                               *)
(***************************************************************************)
\* SKIP = ['mingw-w64-clang']
SKIP == << <<"mingw-w64", "-", "clang">> >>

Channels == {"msys", "mingw", "failed"}

GhaBot == [type |-> "Bot", login |-> "github-actions[bot]"]

(***************************************************************************)
(* fnmatch.fnmatch over token sequences: "*" matches any run of tokens,    *)
(* every other token matches itself.                                       *)
(***************************************************************************)
RECURSIVE fnmatch(_, _)
fnmatch(name, pat) ==
    IF pat = <<>> THEN name = <<>>
    ELSE IF Head(pat) = "*"
         THEN fnmatch(name, Tail(pat))
              \/ (name # <<>> /\ fnmatch(Tail(name), pat))
         ELSE name # <<>> /\ Head(name) = Head(pat)
              /\ fnmatch(Tail(name), Tail(pat))

\* fnmatch.filter(names, pat)
fnmatch_filter(names, pat) == {n \in names : fnmatch(n, pat)}

\* f"{item}-{pkg['version']}-*.pkg.tar.*"
done_pattern(item, version) ==
    item \o <<"-">> \o version \o <<"-", "*", ".", "pkg", ".", "tar", ".", "*">>

\* f"{item}-{pkg['version']}.failed"
failed_name(item, version) ==
    item \o <<"-">> \o version \o <<".", "failed">>

\* as dep_pattern, without the version: f"{name}-*.pkg.*"
dep_pattern_any_version(name, version) ==
    name \o <<"-", "*", ".", "pkg", ".", "*">>

\* f"{name}-{dep['version']}-*.pkg.*"
dep_pattern(name, version) ==
    name \o <<"-">> \o version \o <<"-", "*", ".", "pkg", ".", "*">>

(***************************************************************************)
(* get_buildqueue: pkg['repo'], dep_mapping and pkg['ext-depends'].        *)
(***************************************************************************)
\* pkg['repo'] = pkg['repo_url'].split('/')[-1]
repo_of(pkg) == pkg.repo_url[Len(pkg.repo_url)]

\* dep['repo'].startswith('MSYS2')
starts_with_msys2(repo) == repo # <<>> /\ Head(repo) = "MSYS2"

\* dep_mapping[name]: the last entry of the queue that produces name (0: KeyError)
dep_mapping(pkgs, name) ==
    LET producers == {n \in DOMAIN pkgs : name \in Range(pkgs[n].packages)}
    IN  IF producers = {} THEN 0
        ELSE CHOOSE n \in producers : \A m \in producers : m <= n

\* pkg['ext-depends']: a dict in insertion order, as a sequence of [name, pkg]
RECURSIVE ext_depends_from(_, _, _, _)
ext_depends_from(pkgs, depends, k, acc) ==
    IF k > Len(depends) THEN acc
    ELSE LET dep == depends[k]
             entry == [name |-> dep, pkg |-> dep_mapping(pkgs, dep)]
         IN  IF \E n \in DOMAIN acc : acc[n].name = dep
             THEN ext_depends_from(pkgs, depends, k + 1,
                      [n \in DOMAIN acc |-> IF acc[n].name = dep THEN entry ELSE acc[n]])
             ELSE ext_depends_from(pkgs, depends, k + 1, Append(acc, entry))

ext_depends(pkgs, pkg) == ext_depends_from(pkgs, pkg.depends, 1, <<>>)

(***************************************************************************)
(* get_release_assets: the listing of a channel, or SystemExit.            *)
(***************************************************************************)
trusted(asset) ==
    ~(asset.uploader.type # "Bot" \/ asset.uploader.login # "github-actions[bot]")

\* as get_release_assets, leaving untrusted assets out instead of aborting
get_release_assets_filtered(release) ==
    [raised |-> "none", assets |-> {a \in release : trusted(a)}]

get_release_assets(release) ==
    IF \E a \in release : ~trusted(a)
    THEN [raised |-> "SystemExit", assets |-> {}]
    ELSE [raised |-> "none", assets |-> release]

(***************************************************************************)
(* get_packages_to_build.                                                  *)
(***************************************************************************)
RECURSIVE pkg_is_done_from(_, _, _)
pkg_is_done_from(assets, pkg, k) ==
    IF k > Len(pkg.packages) THEN TRUE
    ELSE IF fnmatch_filter(assets, done_pattern(pkg.packages[k], pkg.version)) = {}
         THEN FALSE
         ELSE pkg_is_done_from(assets, pkg, k + 1)

pkg_is_done_any(assets, pkg) ==
    \E k \in DOMAIN pkg.packages :
        fnmatch_filter(assets, done_pattern(pkg.packages[k], pkg.version)) # {}

pkg_is_done(assets, pkg) == pkg_is_done_from(assets, pkg, 1)

RECURSIVE pkg_has_failed_from(_, _, _)
pkg_has_failed_from(assets_failed, pkg, k) ==
    IF k > Len(pkg.packages) THEN FALSE
    ELSE IF failed_name(pkg.packages[k], pkg.version) \in assets_failed
         THEN TRUE
         ELSE pkg_has_failed_from(assets_failed, pkg, k + 1)

pkg_has_failed(assets_failed, pkg) == pkg_has_failed_from(assets_failed, pkg, 1)

pkg_is_skipped(pkg) == pkg.name \in Range(SKIP)

\* as first_blocking_dep, looking at the first dependency only
first_blocking_dep_head(pkgs, assets_failed, deps, k) ==
    IF deps = <<>> THEN 0
    ELSE IF pkg_has_failed(assets_failed, pkgs[deps[1].pkg])
            \/ pkg_is_skipped(pkgs[deps[1].pkg])
         THEN deps[1].pkg
         ELSE 0

\* as first_blocking_dep, without the "or pkg_is_skipped(dep)" of line 355
RECURSIVE first_blocking_dep_failed_only(_, _, _, _)
first_blocking_dep_failed_only(pkgs, assets_failed, deps, k) ==
    IF k > Len(deps) THEN 0
    ELSE IF pkg_has_failed(assets_failed, pkgs[deps[k].pkg])
         THEN deps[k].pkg
         ELSE first_blocking_dep_failed_only(pkgs, assets_failed, deps, k + 1)

\* the for/else over pkg['ext-depends'].values(): the first offending
\* dependency (a queue index), or 0 when the loop ends without a break
RECURSIVE first_blocking_dep(_, _, _, _)
first_blocking_dep(pkgs, assets_failed, deps, k) ==
    IF k > Len(deps) THEN 0
    ELSE LET dep == pkgs[deps[k].pkg]
         IN  IF pkg_has_failed(assets_failed, dep) \/ pkg_is_skipped(dep)
             THEN deps[k].pkg
             ELSE first_blocking_dep(pkgs, assets_failed, deps, k + 1)

\* as classify_one, with "if" for the first "elif": a done entry is classified again
classify_one_if(pkgs, assets, assets_failed, n, acc) ==
    LET pkg == pkgs[n]
        blocking == first_blocking_dep(pkgs, assets_failed, ext_depends(pkgs, pkg), 1)
        acc1 == IF pkg_is_done(assets, pkg)
                THEN [acc EXCEPT !.done = Append(@, n)] ELSE acc
    IN  IF pkg_has_failed(assets_failed, pkg)
        THEN [acc1 EXCEPT !.skipped = Append(@, [pkg |-> n, reason |-> <<"failed">>])]
        ELSE IF pkg_is_skipped(pkg)
        THEN [acc1 EXCEPT !.skipped = Append(@, [pkg |-> n, reason |-> <<"skipped">>])]
        ELSE IF blocking # 0
        THEN [acc1 EXCEPT !.skipped =
                 Append(@, [pkg |-> n,
                            reason |-> <<"requires: ">> \o pkgs[blocking].name])]
        ELSE [acc1 EXCEPT !.todo = Append(@, n)]

\* as classify_one, with the exclusion list looked at before the failure markers
classify_one_skip_first(pkgs, assets, assets_failed, n, acc) ==
    LET pkg == pkgs[n]
        blocking == first_blocking_dep(pkgs, assets_failed, ext_depends(pkgs, pkg), 1)
    IN  IF pkg_is_done(assets, pkg)
        THEN [acc EXCEPT !.done = Append(@, n)]
        ELSE IF pkg_is_skipped(pkg)
        THEN [acc EXCEPT !.skipped = Append(@, [pkg |-> n, reason |-> <<"skipped">>])]
        ELSE IF pkg_has_failed(assets_failed, pkg)
        THEN [acc EXCEPT !.skipped = Append(@, [pkg |-> n, reason |-> <<"failed">>])]
        ELSE IF blocking # 0
        THEN [acc EXCEPT !.skipped =
                 Append(@, [pkg |-> n,
                            reason |-> <<"requires: ">> \o pkgs[blocking].name])]
        ELSE [acc EXCEPT !.todo = Append(@, n)]

\* one iteration of "for pkg in get_buildqueue()", on the lists so far
classify_one(pkgs, assets, assets_failed, n, acc) ==
    LET pkg == pkgs[n]
        blocking == first_blocking_dep(pkgs, assets_failed, ext_depends(pkgs, pkg), 1)
    IN  IF pkg_is_done(assets, pkg)
        THEN [acc EXCEPT !.done = Append(@, n)]
        ELSE IF pkg_has_failed(assets_failed, pkg)
        THEN [acc EXCEPT !.skipped = Append(@, [pkg |-> n, reason |-> <<"failed">>])]
        ELSE IF pkg_is_skipped(pkg)
        THEN [acc EXCEPT !.skipped = Append(@, [pkg |-> n, reason |-> <<"skipped">>])]
        ELSE IF blocking # 0
        THEN [acc EXCEPT !.skipped =
                 Append(@, [pkg |-> n,
                            reason |-> <<"requires: ">> \o pkgs[blocking].name])]
        ELSE [acc EXCEPT !.todo = Append(@, n)]

RECURSIVE classify_from(_, _, _, _, _)
classify_from(pkgs, assets, assets_failed, n, acc) ==
    IF n > Len(pkgs) THEN acc
    ELSE classify_from(pkgs, assets, assets_failed, n + 1,
                       classify_one(pkgs, assets, assets_failed, n, acc))

\* the listings of lines 323-326 and the three lists of line 361
get_packages_to_build(pkgs, channels) ==
    LET msys == get_release_assets(channels["msys"])
        mingw == get_release_assets(channels["mingw"])
        failed == get_release_assets(channels["failed"])
        assets == {a.name : a \in msys.assets \cup mingw.assets}
        assets_failed == {a.name : a \in failed.assets}
        lists == classify_from(pkgs, assets, assets_failed, 1,
                               [done |-> <<>>, skipped |-> <<>>, todo |-> <<>>])
    IN  IF msys.raised # "none" \/ mingw.raised # "none" \/ failed.raised # "none"
        THEN [raised |-> "SystemExit", done |-> <<>>, skipped |-> <<>>, todo |-> <<>>]
        ELSE [raised |-> "none", done |-> lists.done, skipped |-> lists.skipped,
              todo |-> lists.todo]

(***************************************************************************)
(* upload_asset(type_, path): a no-op for any identity but the bot; as the *)
(* bot it lists the channel (line 107) and then calls get_assets() on the  *)
(* list that get_release_assets returned (line 109), an AttributeError.    *)
(* Every caller leaves replace at its default, True.                       *)
(***************************************************************************)
\* as upload_asset, with a guard that looks at the login only
upload_asset_login_only(channels, current_user, type_, name) ==
    IF current_user.login # "github-actions[bot]"
    THEN [raised |-> "none", channels |-> channels, sent |-> {}]
    ELSE IF get_release_assets(channels[type_]).raised # "none"
    THEN [raised |-> "SystemExit", channels |-> channels, sent |-> {}]
    ELSE [raised |-> "AttributeError", channels |-> channels, sent |-> {}]

upload_asset(channels, current_user, type_, name) ==
    IF current_user.login # "github-actions[bot]" \/ current_user.type # "Bot"
    THEN [raised |-> "none", channels |-> channels, sent |-> {}]
    ELSE IF get_release_assets(channels[type_]).raised # "none"
    THEN [raised |-> "SystemExit", channels |-> channels, sent |-> {}]
    ELSE [raised |-> "AttributeError", channels |-> channels, sent |-> {}]

\* a loop "for name in names: upload_asset(type_, name)", from the k-th name on
RECURSIVE upload_each(_, _, _, _, _, _)
upload_each(channels, current_user, type_, names, k, sent) ==
    IF k > Len(names)
    THEN [raised |-> "none", channels |-> channels, sent |-> sent, tried |-> k - 1]
    ELSE LET r == upload_asset(channels, current_user, type_, names[k])
         IN  IF r.raised # "none"
             THEN [raised |-> r.raised, channels |-> r.channels,
                   sent |-> sent \cup r.sent, tried |-> k]
             ELSE upload_each(r.channels, current_user, type_, names, k + 1,
                              sent \cup r.sent)

(***************************************************************************)
(* get_repo_subdir(type_, asset): <<>> stands for "unknown file type".     *)
(***************************************************************************)
starts_with(s, prefix) ==
    Len(s) >= Len(prefix) /\ SubSeq(s, 1, Len(prefix)) = prefix

get_repo_subdir(type_, entry) ==
    IF type_ = "msys"
    THEN IF fnmatch(entry, <<"*", ".", "pkg", ".", "tar", ".", "*">>)
         THEN <<type_, "/", "x86_64">>
         ELSE IF fnmatch(entry, <<"*", ".", "src", ".", "tar", ".", "*">>)
         THEN <<type_, "/", "sources">>
         ELSE <<>>
    ELSE IF fnmatch(entry, <<"*", ".", "src", ".", "tar", ".", "*">>)
         THEN <<type_, "/", "sources">>
         ELSE IF starts_with(entry, <<"mingw-w64", "-", "x86_64", "-">>)
         THEN <<type_, "/", "x86_64">>
         ELSE IF starts_with(entry, <<"mingw-w64", "-", "i686", "-">>)
         THEN <<type_, "/", "i686">>
         ELSE <<>>

(***************************************************************************)
(* staging_dependencies.add_to_repo: the text written to pacman.conf.      *)
(***************************************************************************)
\* "autobuild-" + str(subdir).replace("/", "-").replace("\\", "-")
repo_name_of(subdir) ==
    <<"autobuild", "-">> \o [n \in DOMAIN subdir |->
                               IF subdir[n] \in {"/", "\\"} THEN "-" ELSE subdir[n]]

\* to_pure_posix_path(repo_dir).as_uri()
uri_of(subdir) == <<"file://", "/", "_REPO", "/">> \o subdir

\* "uri not in text": a substring test on the whole file
contains(line, sub) ==
    \E n \in 0..(Len(line) - Len(sub)) : SubSeq(line, n + 1, n + Len(sub)) = sub

uri_in_text(text, uri) == \E n \in DOMAIN text : contains(text[n], uri)

\* lines 150-162: the file after add_to_repo looked at it
conf_after_add(text, subdir) ==
    IF ~uri_in_text(text, uri_of(subdir))
    THEN << <<"[">> \o repo_name_of(subdir) \o <<"]">>,
            <<"Server=">> \o uri_of(subdir),
            <<"SigLevel=Never">> >> \o text
    ELSE text

(***************************************************************************)
(* staging_dependencies, lines 172-181: every to_add the loop can end      *)
(* with; the listing order of a channel is the store's, so the first       *)
(* matching asset is any matching asset.                                   *)
(***************************************************************************)
RECURSIVE resolve_from(_, _, _, _, _)
resolve_from(pkgs, channels, deps, k, acc) ==
    IF k > Len(deps) THEN {[raised |-> "none", to_add |-> acc]}
    ELSE LET dep == pkgs[deps[k].pkg]
             pattern == dep_pattern(deps[k].name, dep.version)
             repo_type == IF starts_with_msys2(repo_of(dep)) THEN "msys" ELSE "mingw"
             listing == get_release_assets(channels[repo_type])
             found == {a \in listing.assets : fnmatch(a.name, pattern)}
         IN  IF listing.raised # "none"
             THEN {[raised |-> "SystemExit", to_add |-> acc]}
             ELSE IF found = {}
             THEN {[raised |-> "MissingDependencyError", to_add |-> acc]}
             ELSE UNION {resolve_from(pkgs, channels, deps, k + 1,
                             Append(acc, [repo_type |-> repo_type, name |-> a.name]))
                         : a \in found}

(***************************************************************************)
(* timeoutgen / get_timeout, in seconds.                                   *)
(***************************************************************************)
BUILD_TIMEOUT == 18000

Max(a, b) == IF a >= b THEN a ELSE b

\* end = time.time() + timeout, taken once at import; the clock starts at 0
timeout_end == 0 + BUILD_TIMEOUT

\* as get_timeout, without the max(..., 0) of line 34
get_timeout_unclamped(t) == timeout_end - t

get_timeout(t) == Max(timeout_end - t, 0)

\* the longest a makepkg phase can want to run, in half budgets
MaxDur == 2

\* the times a makepkg phase can want to run for
Durations == {d * (BUILD_TIMEOUT \div 2) : d \in 1..MaxDur}

\* the time git clone or git fetch can take: next to none, or half a budget
Elapsed == {0, BUILD_TIMEOUT \div 2}

(***************************************************************************)
(* build_package: what makepkg leaves in pkg_dir after both phases.        *)
(***************************************************************************)
pkg_file(item, version) ==
    item \o <<"-">> \o version \o <<"-", "any", ".", "pkg", ".", "tar", ".", "zst">>

src_file(name, version) ==
    name \o <<"-">> \o version \o <<".", "src", ".", "tar", ".", "gz">>

listdir(pkg) ==
    <<  <<"PKGBUILD">> >>
    \o [n \in DOMAIN pkg.packages |-> pkg_file(pkg.packages[n], pkg.version)]
    \o << src_file(pkg.name, pkg.version) >>

\* lines 245-247: the entries that are uploaded
build_outputs(pkg) ==
    SelectSeq(listdir(pkg),
              LAMBDA e : fnmatch(e, <<"*", ".", "pkg", ".", "tar", ".", "*">>)
                         \/ fnmatch(e, <<"*", ".", "src", ".", "tar", ".", "*">>))

\* lines 235-237: the failure markers of a package
failure_markers(pkg) ==
    [n \in DOMAIN pkg.packages |-> failed_name(pkg.packages[n], pkg.version)]

(***************************************************************************)
(* The inputs: build queues as the API serves them, and channel contents.  *)
(***************************************************************************)
MsysUrl == << <<"https:">>, <<>>, <<"github.com">>, <<"msys2">>,
              <<"MSYS2", "-", "packages">> >>

MingwUrl == << <<"https:">>, <<>>, <<"github.com">>, <<"msys2">>,
               <<"MINGW", "-", "packages">> >>

V1 == <<"1.0", "-", "1">>

V2 == <<"1.0", "-", "2">>

Versions == {V1, V2}

Mingw(arch, base) == <<"mingw-w64", "-", arch, "-", base>>

MingwBase(base) == <<"mingw-w64", "-", base>>

Pkg(name, version, url, packages, depends) ==
    [name |-> name, version |-> version, repo_url |-> url,
     packages |-> packages, depends |-> depends]

Bash == Pkg(<<"bash">>, V1, MsysUrl, << <<"bash">>, <<"bash", "-", "devel">> >>, <<>>)

Zlib == Pkg(MingwBase("zlib"), V2, MingwUrl, << Mingw("x86_64", "zlib") >>,
            << <<"bash">> >>)

ZlibAlone == Pkg(MingwBase("zlib"), V2, MingwUrl, << Mingw("x86_64", "zlib") >>, <<>>)

Gcc == Pkg(MingwBase("gcc"), V1, MingwUrl,
           << Mingw("x86_64", "gcc"), Mingw("i686", "gcc") >>,
           << Mingw("x86_64", "zlib") >>)

GccAlone == Pkg(MingwBase("gcc"), V1, MingwUrl,
                << Mingw("x86_64", "gcc"), Mingw("i686", "gcc") >>, <<>>)

Clang == Pkg(MingwBase("clang"), V1, MingwUrl, << Mingw("x86_64", "clang") >>, <<>>)

Lld == Pkg(MingwBase("lld"), V1, MingwUrl, << Mingw("x86_64", "lld") >>,
           << Mingw("x86_64", "zlib"), Mingw("x86_64", "clang") >>)

Gdb == Pkg(MingwBase("gdb"), V1, MingwUrl, << Mingw("x86_64", "gdb") >>,
           << Mingw("i686", "gcc"), Mingw("x86_64", "gcc") >>)

\* a chain, dependents first; the same chain in dependency order; an entry
\* with two dependencies, one of them excluded; two dependency names that
\* resolve to one entry
Queues ==
    { <<Gcc, Zlib, Bash>>, <<Bash, Zlib, Gcc>>, <<Lld, ZlibAlone, Clang>>,
      <<GccAlone, Gdb>> }

Produced(pkgs) == UNION {Range(pkgs[n].packages) : n \in DOMAIN pkgs}

\* the names an asset of staging-msys or staging-mingw can have
AssetNames(pkgs) ==
    {pkg_file(item, v) : item \in Produced(pkgs), v \in Versions}
    \cup {src_file(pkgs[n].name, pkgs[n].version) : n \in DOMAIN pkgs}

\* the names an asset of staging-failed can have
MarkerNames(pkgs) == {failed_name(item, v) : item \in Produced(pkgs), v \in Versions}

\* build_package uploads the outputs of MSYS2-packages to staging-msys and
\* the others to staging-mingw; the mingw names are the "mingw-w64" ones
TypeOf(name) == IF Head(name) = "mingw-w64" THEN "mingw" ELSE "msys"

ByBot(names) == {[name |-> n, uploader |-> GhaBot] : n \in names}

Developer == [type |-> "User", login |-> "alice"]

UntrustedUploaders ==
    { Developer, [type |-> "Bot", login |-> "dependabot[bot]"],
      [type |-> "User", login |-> "github-actions[bot]"] }

ConfOrig ==
    << <<"#RemoteFileSigLevel = Required">>, <<"[", "mingw64", "]">>,
       <<"Include = /etc/pacman.d/mirrorlist.mingw64">> >>

\* the assets and markers that name an entry of the queue at its own version
OwnAssetNames(pkgs) ==
    UNION {{pkg_file(item, pkgs[n].version) : item \in Range(pkgs[n].packages)}
           : n \in DOMAIN pkgs}

OwnMarkerNames(pkgs) ==
    UNION {{failed_name(item, pkgs[n].version) : item \in Range(pkgs[n].packages)}
           : n \in DOMAIN pkgs}

World(assetNames, markerNames, users) ==
    /\ \E present \in SUBSET assetNames, markers \in SUBSET markerNames :
          /\ Cardinality(present) <= MaxAssets
          /\ Cardinality(markers) <= MaxMarkers
          /\ chan = [c \in Channels |->
                        IF c = "failed" THEN ByBot(markers)
                        ELSE ByBot({n \in present : TypeOf(n) = c})]
    /\ user \in users
    /\ conf = ConfOrig
    /\ conf0 = conf
    /\ backup = [exists |-> FALSE, text |-> <<>>]
    /\ repo_root = [exists |-> FALSE, files |-> {}]
    /\ now = 0
    /\ pc = "start"
    /\ i = 0
    /\ done = <<>>
    /\ skipped = <<>>
    /\ todo = <<>>
    /\ to_add = <<>>
    /\ next_add = 0
    /\ exc = "none"
    /\ origin = "none"
    /\ phases = <<>>
    /\ last = "none"
    /\ fatal = "none"
    /\ uploaded = {}
    /\ steps = <<>>
    /\ calls = <<>>
    /\ given = <<>>

\* assets of another version than the queue's, for the names entries depend on
StaleAssetNames(pkgs) ==
    UNION {{pkg_file(pkgs[n].depends[m], v) : m \in DOMAIN pkgs[n].depends, v \in Versions}
           : n \in DOMAIN pkgs} \ OwnAssetNames(pkgs)

\* who the program can be running as: the bot, another bot, a user that has
\* the bot's login
Identities == {GhaBot} \cup (UntrustedUploaders \ {Developer})

Tar == Pkg(<<"tar">>, V1, MsysUrl, << <<"tar">> >>,
           << <<"bash">>, <<"bash", "-", "devel">> >>)

\* the queues of a run: a chain in dependency order; two dependencies staged
\* in two subdirectories; two dependencies staged in one subdirectory
RunQueues == { <<Bash, Zlib, Gcc>>, <<GccAlone, Gdb>>, <<Bash, Tar>> }

\* a run: the assets and markers of the queue's own versions, outdated assets
\* of dependencies, any identity
Init ==
    /\ queue \in RunQueues
    /\ World(OwnAssetNames(queue) \cup StaleAssetNames(queue), OwnMarkerNames(queue),
             Identities)

\* the classifier: also assets and markers of other versions, source archives
ClassifyInit ==
    /\ queue \in Queues
    /\ World(AssetNames(queue), MarkerNames(queue), {GhaBot})

(***************************************************************************)
(* The store changes under the program: somebody else uploads an asset.    *)
(* A listing sees it from then on; between two listings the moment does    *)
(* not matter, so it happens right before one (lines 325-326, 176, 107).   *)
(***************************************************************************)
Tamper ==
    /\ pc \in {"start", "resolve", "mark_failed", "publish"}
    /\ \A c \in Channels : \A a \in chan[c] : trusted(a)
    /\ \E c \in Channels, u \in UntrustedUploaders :
          LET name == IF c = "failed"
                      THEN failed_name(queue[1].packages[1], queue[1].version)
                      ELSE pkg_file(queue[1].packages[1], queue[1].version)
          IN  /\ \A a \in chan[c] : a.name # name
              /\ chan' = [chan EXCEPT ![c] = @ \cup {[name |-> name, uploader |-> u]}]
    /\ UNCHANGED <<queue, user, conf, backup, repo_root, now, pc, i, done, skipped,
                   todo, to_add, next_add, exc, origin, phases, last, fatal, uploaded,
                   conf0, steps, calls, given>>

(***************************************************************************)
(* run_build, line 270: get_packages_to_build()[2].                        *)
(***************************************************************************)
GetPackagesToBuild ==
    /\ pc = "start"
    /\ LET r == get_packages_to_build(queue, chan)
       IN  IF r.raised # "none"
           THEN /\ fatal' = r.raised
                /\ pc' = "exit"
                /\ UNCHANGED <<done, skipped, todo, i>>
           ELSE /\ done' = r.done
                /\ skipped' = r.skipped
                /\ todo' = r.todo
                /\ i' = 1
                /\ pc' = "loop"
                /\ UNCHANGED fatal
    /\ UNCHANGED <<queue, chan, user, conf, backup, repo_root, now, to_add, next_add, exc,
                   origin, phases, last, uploaded, conf0, steps, calls, given>>

ClassifyNext == Tamper \/ GetPackagesToBuild

\* the classifier on every input: queue, listings, tampered or not
ClassifySpec == ClassifyInit /\ [][ClassifyNext]_vars

(***************************************************************************)
(* run_build, lines 270-273: the next entry of todo, or the end of the     *)
(* loop.  build_package enters staging_dependencies (lines 167-171): the   *)
(* staging root is emptied and pacman.conf copied to its backup.           *)
(***************************************************************************)
BeginPackage ==
    /\ pc = "loop"
    /\ i <= Len(todo)
    /\ repo_root' = [exists |-> TRUE, files |-> {}]
    /\ backup' = [exists |-> TRUE, text |-> conf]
    /\ to_add' = <<>>
    /\ next_add' = 1
    /\ exc' = "none"
    /\ origin' = "none"
    /\ phases' = <<>>
    /\ steps' = <<"rmtree", "makedirs", "copyfile">>
    /\ calls' = <<>>
    /\ pc' = "resolve"
    /\ UNCHANGED <<queue, chan, user, conf, now, i, done, skipped, todo, last, fatal,
                   uploaded, conf0, given>>

EndOfTodo ==
    /\ pc = "loop"
    /\ i > Len(todo)
    /\ pc' = "exit"
    /\ UNCHANGED <<queue, chan, user, conf, backup, repo_root, now, i, done, skipped,
                   todo, to_add, next_add, exc, origin, phases, last, fatal, uploaded,
                   conf0, steps, calls, given>>

\* the package of the current attempt
current == queue[todo[i]]

(***************************************************************************)
(* staging_dependencies, lines 172-181: find an asset for every            *)
(* dependency, or raise.                                                   *)
(***************************************************************************)
ResolveDeps ==
    /\ pc = "resolve"
    /\ \E r \in resolve_from(queue, chan, ext_depends(queue, current), 1, <<>>) :
          /\ to_add' = r.to_add
          /\ exc' = r.raised
          /\ origin' = r.raised
          /\ pc' = IF r.raised = "none" THEN "add" ELSE "restore"
    /\ UNCHANGED <<queue, chan, user, conf, backup, repo_root, now, i, done, skipped,
                   todo, next_add, phases, last, fatal, uploaded, conf0, steps, calls,
                   given>>

(***************************************************************************)
(* staging_dependencies, lines 183-184 and add_to_repo: one asset.  The    *)
(* download (requests) and repo-add (check_call) can fail.                 *)
(***************************************************************************)
AddToRepo ==
    /\ pc = "add"
    /\ next_add <= Len(to_add)
    /\ LET item == to_add[next_add]
           subdir == get_repo_subdir(item.repo_type, item.name)
       IN  IF subdir = <<>>
           THEN /\ exc' = "Exception"
                /\ origin' = "Exception"
                /\ pc' = "restore"
                /\ UNCHANGED <<repo_root, conf, next_add, steps>>
           ELSE \E downloaded \in BOOLEAN, added \in BOOLEAN :
                   IF ~downloaded
                   THEN /\ exc' = "RequestException"
                        /\ origin' = "RequestException"
                        /\ pc' = "restore"
                        /\ steps' = Append(steps, "download")
                        /\ UNCHANGED <<repo_root, conf, next_add>>
                   ELSE /\ repo_root' = [repo_root EXCEPT !.files =
                                @ \cup {[dir |-> subdir, name |-> item.name]}]
                        /\ conf' = conf_after_add(conf, subdir)
                        /\ steps' = steps \o <<"download", "repo-add">>
                        /\ IF added
                           THEN /\ next_add' = next_add + 1
                                /\ UNCHANGED <<exc, origin, pc>>
                           ELSE /\ exc' = "CalledProcessError"
                                /\ origin' = "CalledProcessError"
                                /\ pc' = "restore"
                                /\ UNCHANGED next_add
    /\ UNCHANGED <<queue, chan, user, backup, now, i, done, skipped, todo, to_add,
                   phases, last, fatal, uploaded, conf0, calls, given>>

\* line 187: pacman -Suy, then the yield to the with-body
SyncStaged ==
    /\ pc = "add"
    /\ next_add > Len(to_add)
    /\ \E synced \in BOOLEAN :
          IF synced
          THEN /\ pc' = "checkout"
               /\ UNCHANGED <<exc, origin>>
          ELSE /\ exc' = "CalledProcessError"
               /\ origin' = "CalledProcessError"
               /\ pc' = "restore"
    /\ steps' = Append(steps, "pacman -Suy")
    /\ UNCHANGED <<queue, chan, user, conf, backup, repo_root, now, i, done, skipped,
                   todo, to_add, next_add, phases, last, fatal, uploaded, conf0, calls,
                   given>>

(***************************************************************************)
(* fresh_git_repo, lines 52-56: clone, or fetch and reset.  A failure here *)
(* is raised before the try of line 57.                                    *)
(***************************************************************************)
Checkout ==
    /\ pc = "checkout"
    /\ \E fetched \in BOOLEAN :
          IF fetched
          THEN /\ pc' = "install"
               /\ UNCHANGED <<exc, origin>>
          ELSE /\ exc' = "CalledProcessError"
               /\ origin' = "CalledProcessError"
               /\ pc' = "restore"
    /\ steps' = Append(steps, "git fetch")
    /\ \E took \in Elapsed : now' = now + took
    /\ UNCHANGED <<queue, chan, user, conf, backup, repo_root, i, done, skipped,
                   todo, to_add, next_add, phases, last, fatal, uploaded, conf0, calls,
                   given>>

(***************************************************************************)
(* build_package, lines 209-232: a makepkg phase under timeout=            *)
(* get_timeout().  It wants to run for some time and exits zero or not;    *)
(* check_call raises TimeoutExpired when the timeout ends first.           *)
(***************************************************************************)
\* as Phase, with subprocess.call for check_call: the exit status is not looked at
PhaseUnchecked(at, name, after) ==
    /\ pc = at
    /\ \E wants \in Durations, status \in {0, 1} :
          LET timeout == get_timeout(now)
              result == IF wants > timeout THEN "timeout"
                        ELSE IF status = 0 THEN "ok" ELSE "failed"
          IN  /\ phases' = Append(phases, [name |-> name, timeout |-> timeout,
                                           result |-> result])
              /\ now' = IF result = "timeout" THEN now + timeout ELSE now + wants
              /\ given' = <<[at |-> now, timeout |-> timeout]>>
              /\ steps' = Append(steps, name)
              /\ IF result = "timeout"
                 THEN /\ exc' = "BuildTimeoutError"
                      /\ origin' = "BuildTimeoutError"
                      /\ pc' = "clean"
                 ELSE /\ pc' = after
                      /\ UNCHANGED <<exc, origin>>
    /\ UNCHANGED <<queue, chan, user, conf, backup, repo_root, i, done, skipped,
                   todo, to_add, next_add, last, fatal, uploaded, conf0, calls>>

Phase(at, name, after) ==
    /\ pc = at
    /\ \E wants \in Durations, status \in {0, 1} :
          LET timeout == get_timeout(now)
              result == IF wants > timeout THEN "timeout"
                        ELSE IF status = 0 THEN "ok" ELSE "failed"
          IN  /\ phases' = Append(phases, [name |-> name, timeout |-> timeout,
                                           result |-> result])
              /\ now' = IF result = "timeout" THEN now + timeout ELSE now + wants
              /\ given' = <<[at |-> now, timeout |-> timeout]>>
              /\ steps' = Append(steps, name)
              /\ IF result = "timeout"
                 THEN /\ exc' = "BuildTimeoutError"
                      /\ origin' = "BuildTimeoutError"
                      /\ pc' = "clean"
                 ELSE /\ pc' = IF result = "ok" THEN after ELSE "mark_failed"
                      /\ UNCHANGED <<exc, origin>>
    /\ UNCHANGED <<queue, chan, user, conf, backup, repo_root, i, done, skipped,
                   todo, to_add, next_add, last, fatal, uploaded, conf0, calls>>

InstallPhase == Phase("install", "makepkg", "source")

SourcePhase == Phase("source", "makepkg --allsource", "publish")

(***************************************************************************)
(* build_package, lines 233-243: a failure marker for every produced name, *)
(* then BuildError.                                                        *)
(***************************************************************************)
MarkFailed ==
    /\ pc = "mark_failed"
    /\ LET r == upload_each(chan, user, "failed", failure_markers(current), 1, {})
       IN  /\ chan' = r.channels
           /\ uploaded' = uploaded \cup
                 {[type |-> "failed", name |-> n, pkg |-> todo[i]] : n \in r.sent}
           /\ calls' = calls \o [n \in 1..r.tried |->
                                    [type |-> "failed", name |-> failure_markers(current)[n]]]
           /\ exc' = IF r.raised = "none" THEN "BuildError" ELSE r.raised
           /\ origin' = exc'
    /\ pc' = "clean"
    /\ UNCHANGED <<queue, user, conf, backup, repo_root, now, i, done, skipped, todo,
                   to_add, next_add, phases, last, fatal, conf0, steps, given>>

(***************************************************************************)
(* build_package, lines 244-249: the outputs go to the channel of the      *)
(* package's own repo.                                                     *)
(***************************************************************************)
Publish ==
    /\ pc = "publish"
    /\ LET type_ == IF starts_with_msys2(repo_of(current)) THEN "msys" ELSE "mingw"
           r == upload_each(chan, user, type_, build_outputs(current), 1, {})
       IN  /\ chan' = r.channels
           /\ uploaded' = uploaded \cup
                 {[type |-> type_, name |-> n, pkg |-> todo[i]] : n \in r.sent}
           /\ calls' = calls \o [n \in 1..r.tried |->
                                    [type |-> type_, name |-> build_outputs(current)[n]]]
           /\ exc' = r.raised
           /\ origin' = r.raised
    /\ pc' = "clean"
    /\ UNCHANGED <<queue, user, conf, backup, repo_root, now, i, done, skipped, todo,
                   to_add, next_add, phases, last, fatal, conf0, steps, given>>

(***************************************************************************)
(* fresh_git_repo, lines 59-62: git clean and git reset, on every exit of  *)
(* the with-body.  An exception raised in a finally clause replaces the    *)
(* one that was propagating.                                               *)
(***************************************************************************)
\* as CleanCheckout, without the try/finally of lines 57-59: git clean and git
\* reset run only when the with-body raised nothing
CleanCheckoutOnSuccess ==
    /\ pc = "clean"
    /\ IF exc = "none"
       THEN \E cleaned \in BOOLEAN, reset \in BOOLEAN :
               /\ steps' = IF cleaned THEN steps \o <<"git clean", "git reset">>
                            ELSE Append(steps, "git clean")
               /\ IF cleaned /\ reset
                  THEN UNCHANGED <<exc, origin>>
                  ELSE /\ exc' = "CalledProcessError"
                       /\ origin' = "CalledProcessError"
       ELSE UNCHANGED <<steps, exc, origin>>
    /\ pc' = "restore"
    /\ UNCHANGED <<queue, chan, user, conf, backup, repo_root, now, i, done, skipped,
                   todo, to_add, next_add, phases, last, fatal, uploaded, conf0, calls,
                   given>>

CleanCheckout ==
    /\ pc = "clean"
    /\ \E cleaned \in BOOLEAN, reset \in BOOLEAN :
          /\ steps' = IF cleaned THEN steps \o <<"git clean", "git reset">>
                       ELSE Append(steps, "git clean")
          /\ IF cleaned /\ reset
             THEN UNCHANGED <<exc, origin>>
             ELSE /\ exc' = "CalledProcessError"
                  /\ origin' = IF origin = "none" THEN "CalledProcessError" ELSE origin
    /\ pc' = "restore"
    /\ UNCHANGED <<queue, chan, user, conf, backup, repo_root, now, i, done, skipped,
                   todo, to_add, next_add, phases, last, fatal, uploaded, conf0, calls,
                   given>>

\* backup_pacman_conf, line 131: os.replace(backup, conf)
restore_conf(conf_text, backup_file) == backup_file.text

\* as RestoreConf, without the try/finally: no os.replace when an exception
\* propagates
RestoreConfOnSuccess ==
    /\ pc = "restore"
    /\ IF exc = "none"
       THEN /\ conf' = restore_conf(conf, backup)
            /\ backup' = [exists |-> FALSE, text |-> <<>>]
            /\ steps' = Append(steps, "os.replace")
       ELSE UNCHANGED <<conf, backup, steps>>
    /\ pc' = "teardown"
    /\ UNCHANGED <<queue, chan, user, repo_root, now, i, done, skipped, todo, to_add,
                   next_add, exc, origin, phases, last, fatal, uploaded, conf0, calls,
                   given>>

RestoreConf ==
    /\ pc = "restore"
    /\ conf' = restore_conf(conf, backup)
    /\ backup' = [exists |-> FALSE, text |-> <<>>]
    /\ steps' = Append(steps, "os.replace")
    /\ pc' = "teardown"
    /\ UNCHANGED <<queue, chan, user, repo_root, now, i, done, skipped, todo, to_add,
                   next_add, exc, origin, phases, last, fatal, uploaded, conf0, calls,
                   given>>

\* as Teardown, with lines 190-192 after the with block instead of in a finally
\* clause: they run only when nothing was raised
TeardownOnSuccess ==
    /\ pc = "teardown"
    /\ IF exc = "none"
       THEN /\ repo_root' = [exists |-> FALSE, files |-> {}]
            /\ steps' = steps \o <<"rmtree", "pacman -Suuy">>
            /\ \E downgraded \in BOOLEAN :
                  IF downgraded
                  THEN UNCHANGED <<exc, origin>>
                  ELSE /\ exc' = "CalledProcessError"
                       /\ origin' = "CalledProcessError"
       ELSE UNCHANGED <<repo_root, steps, exc, origin>>
    /\ pc' = "dispatch"
    /\ UNCHANGED <<queue, chan, user, conf, backup, now, i, done, skipped, todo,
                   to_add, next_add, phases, last, fatal, uploaded, conf0, calls, given>>

\* staging_dependencies, lines 189-192: rmtree, then pacman -Suuy
Teardown ==
    /\ pc = "teardown"
    /\ repo_root' = [exists |-> FALSE, files |-> {}]
    /\ steps' = steps \o <<"rmtree", "pacman -Suuy">>
    /\ \E downgraded \in BOOLEAN :
          IF downgraded
          THEN UNCHANGED <<exc, origin>>
          ELSE /\ exc' = "CalledProcessError"
               /\ origin' = IF origin = "none" THEN "CalledProcessError" ELSE origin
    /\ pc' = "dispatch"
    /\ UNCHANGED <<queue, chan, user, conf, backup, now, i, done, skipped, todo,
                   to_add, next_add, phases, last, fatal, uploaded, conf0, calls, given>>

(***************************************************************************)
(* run_build, lines 272-284: what the loop does with the outcome of        *)
(* build_package.  MissingDependencyError and BuildTimeoutError are        *)
(* BuildErrors; anything else is not caught.                               *)
(***************************************************************************)
\* as handler_of, with "continue" where line 280 has "break"
handler_of_continue(e) ==
    IF e = "none" THEN "next"
    ELSE IF e \in {"MissingDependencyError", "BuildTimeoutError", "BuildError"}
    THEN "continue"
    ELSE "raise"

handler_of(e) ==
    IF e = "none" THEN "next"
    ELSE IF e = "MissingDependencyError" THEN "continue"
    ELSE IF e = "BuildTimeoutError" THEN "break"
    ELSE IF e = "BuildError" THEN "continue"
    ELSE "raise"

Dispatch ==
    /\ pc = "dispatch"
    /\ last' = IF exc = "none" THEN "ok" ELSE exc
    /\ IF handler_of(exc) \in {"next", "continue"}
       THEN /\ i' = i + 1
            /\ pc' = "loop"
            /\ UNCHANGED fatal
       ELSE /\ pc' = "exit"
            /\ fatal' = IF handler_of(exc) = "raise" THEN exc ELSE fatal
            /\ UNCHANGED i
    /\ UNCHANGED <<queue, chan, user, conf, backup, repo_root, now, done, skipped,
                   todo, to_add, next_add, exc, origin, phases, uploaded, conf0, steps,
                   calls, given>>

Next ==
    \/ Tamper
    \/ GetPackagesToBuild
    \/ BeginPackage
    \/ EndOfTodo
    \/ ResolveDeps
    \/ AddToRepo
    \/ SyncStaged
    \/ Checkout
    \/ InstallPhase
    \/ SourcePhase
    \/ MarkFailed
    \/ Publish
    \/ CleanCheckout
    \/ RestoreConf
    \/ Teardown
    \/ Dispatch

Spec == Init /\ [][Next]_vars

(***************************************************************************)
(* The classifier's contract (get_packages_to_build), stated on its inputs *)
(* and checked under ClassifySpec.                                         *)
(***************************************************************************)
\* get_packages_to_build has returned its three lists
Classified == pc = "loop"

CombinedListing == {a.name : a \in chan["msys"] \cup chan["mingw"]}

FailedListing == {a.name : a \in chan["failed"]}

\* asset is "<item>-<version>-" followed by anything that holds ".pkg.tar."
IsPackageFileOf(asset, item, version) ==
    LET prefix == item \o <<"-">> \o version \o <<"-">>
    IN  /\ starts_with(asset, prefix)
        /\ \E n \in Len(prefix)..(Len(asset) - 5) :
              SubSeq(asset, n + 1, n + 5) = <<".", "pkg", ".", "tar", ".">>

Covered(n, item) ==
    \E a \in CombinedListing : IsPackageFileOf(a, item, queue[n].version)

HasMarker(n) ==
    \E item \in Range(queue[n].packages) :
        (item \o <<"-">> \o queue[n].version \o <<".", "failed">>) \in FailedListing

Excluded(n) == queue[n].name = <<"mingw-w64", "-", "clang">>

\* the queue entries the dependency names of entry n resolve to, in order
DepsOf(n) ==
    [m \in DOMAIN ext_depends(queue, queue[n]) |-> ext_depends(queue, queue[n])[m].pkg]

SkippedWith(n, reason) == \E m \in DOMAIN skipped : skipped[m] = [pkg |-> n, reason |-> reason]

InSkipped(n) == \E m \in DOMAIN skipped : skipped[m].pkg = n

\* C1: an entry is in the done list iff every one of its produced names has an
\* asset "<name>-<version>-*.pkg.tar.*" in the combined staging-msys and
\* staging-mingw listing; partial coverage is not done.
C1_DoneIffAllCovered ==
    Classified =>
        \A n \in DOMAIN queue :
            (n \in Range(done)) <=> (\A item \in Range(queue[n].packages) : Covered(n, item))

\* an entry with one produced name covered and another not, classified not done
C1_Witness ==
    /\ Classified
    /\ \E n \in DOMAIN queue :
          /\ n \notin Range(done)
          /\ \E item \in Range(queue[n].packages) : Covered(n, item)
          /\ \E item \in Range(queue[n].packages) : ~Covered(n, item)
    /\ done # <<>>

\* C2: when A depends on B and B on C, none of them done, and C has a failure
\* marker, both B and A are in the skipped list and neither is in the todo list.
C2_Transitive ==
    Classified =>
        \A a \in DOMAIN queue, b \in DOMAIN queue, c \in DOMAIN queue :
            ( /\ b \in Range(DepsOf(a))
              /\ c \in Range(DepsOf(b))
              /\ {a, b, c} \cap Range(done) = {}
              /\ HasMarker(c) )
            => /\ InSkipped(a) /\ InSkipped(b)
               /\ a \notin Range(todo) /\ b \notin Range(todo)

\* C3 as claimed: every entry with a failed or excluded dependency D is skipped
\* with reason "requires: <D.name>".
C3_Original ==
    Classified =>
        \A n \in DOMAIN queue : \A d \in Range(DepsOf(n)) :
            (HasMarker(d) \/ Excluded(d))
            => SkippedWith(n, <<"requires: ">> \o queue[d].name)

\* the first failed or excluded dependency of entry n, in dependency order
FirstOffending(n) ==
    LET deps == DepsOf(n)
        bad == {m \in DOMAIN deps : HasMarker(deps[m]) \/ Excluded(deps[m])}
    IN  deps[CHOOSE m \in bad : \A m2 \in bad : m <= m2]

\* C3 as amended: an entry that is not done, has no failure marker and is not
\* excluded, and has a failed or excluded dependency, is skipped with reason
\* "requires: <name>" of the first such dependency in its dependency order,
\* wherever the dependency stands in the queue.
C3_RequiresFirstOffending ==
    Classified =>
        \A n \in DOMAIN queue :
            ( /\ ~(\A item \in Range(queue[n].packages) : Covered(n, item))
              /\ ~HasMarker(n)
              /\ ~Excluded(n)
              /\ \E d \in Range(DepsOf(n)) : HasMarker(d) \/ Excluded(d) )
            => /\ SkippedWith(n, <<"requires: ">> \o queue[FirstOffending(n)].name)
               /\ n \notin Range(todo)

\* an entry skipped for a dependency that stands after it in the queue and is
\* not its first dependency
C3_Witness ==
    /\ Classified
    /\ \E n \in DOMAIN queue :
          /\ InSkipped(n)
          /\ ~HasMarker(n) /\ ~Excluded(n)
          /\ \E m \in DOMAIN DepsOf(n) :
                /\ m > 1
                /\ DepsOf(n)[m] > n
                /\ FirstOffending(n) = DepsOf(n)[m]
                /\ SkippedWith(n, <<"requires: ">> \o queue[DepsOf(n)[m]].name)

Occurrences(n) ==
    Cardinality({m \in DOMAIN done : done[m] = n})
    + Cardinality({m \in DOMAIN skipped : skipped[m].pkg = n})
    + Cardinality({m \in DOMAIN todo : todo[m] = n})

\* C4: the three lists are pairwise disjoint and hold every queue entry exactly
\* once; every skipped entry has one reason: "failed", "skipped" or
\* "requires: <name>" of an entry of the queue.
C4_Partition ==
    Classified =>
        /\ \A n \in DOMAIN queue : Occurrences(n) = 1
        /\ Len(done) + Len(skipped) + Len(todo) = Len(queue)
        /\ \A m \in DOMAIN skipped :
              \/ skipped[m].reason \in {<<"failed">>, <<"skipped">>}
              \/ \E d \in DOMAIN queue :
                    skipped[m].reason = <<"requires: ">> \o queue[d].name

\* all three lists are in use, one entry is done and has a failure marker
C4_Witness ==
    /\ Classified
    /\ done # <<>> /\ skipped # <<>> /\ todo # <<>>
    /\ \E n \in Range(done) : HasMarker(n)

C13_TodoHasNoBlockedDep ==
    Classified =>
        \A n \in Range(todo) : \A d \in Range(DepsOf(n)) :
            ~HasMarker(d) /\ ~Excluded(d)

\* an entry whose first dependency is fine and whose second is not was kept out
\* of the todo list, which is not empty
C13_Witness ==
    /\ Classified
    /\ \E n \in DOMAIN queue :
          /\ Len(DepsOf(n)) > 1
          /\ ~HasMarker(DepsOf(n)[1]) /\ ~Excluded(DepsOf(n)[1])
          /\ HasMarker(DepsOf(n)[2]) \/ Excluded(DepsOf(n)[2])
          /\ ~HasMarker(n) /\ ~Excluded(n)
          /\ n \notin Range(todo)
          /\ n \notin Range(done)
    /\ todo # <<>>

(***************************************************************************)
(* The run (run_build), checked under Spec.                                *)
(***************************************************************************)
OnlyBot(c) == \A a \in chan[c] : a.uploader = GhaBot

Unwinding == {"clean", "restore", "teardown", "dispatch"}

LastPhase == phases[Len(phases)]

TimedOut == phases # <<>> /\ LastPhase.result = "timeout"

FailedPhase == phases # <<>> /\ LastPhase.result = "failed"

\* C6: when a package attempt has ended, by any path, pacman.conf is what it
\* was before staging_dependencies was entered; so it is the original file at
\* the start of every attempt and at the end of the run.
C6_ConfRestored ==
    pc \in {"start", "loop", "dispatch", "exit"} => conf = conf0

\* an attempt that wrote a repository stanza and ended with a timeout
C6_Witness ==
    /\ pc = "dispatch"
    /\ next_add > 1
    /\ origin = "BuildTimeoutError"
    /\ conf = conf0

\* the channel staging looks in for the m-th dependency of the current package
DepChannel(m) ==
    LET dep == queue[ext_depends(queue, current)[m].pkg]
        repo == dep.repo_url[Len(dep.repo_url)]
    IN  IF Head(repo) = "MSYS2" THEN "msys" ELSE "mingw"

DepHasAsset(m) ==
    LET d == ext_depends(queue, current)[m]
        prefix == d.name \o <<"-">> \o queue[d.pkg].version \o <<"-">>
    IN  \E a \in chan[DepChannel(m)] :
           /\ starts_with(a.name, prefix)
           /\ \E n \in Len(prefix)..(Len(a.name) - 3) :
                 SubSeq(a.name, n + 1, n + 3) = <<".", "pkg", ".">>

\* what lines 172-181 must end with: the first dependency, in order, whose
\* channel holds an untrusted asset or no matching asset decides
ExpectedOfResolve ==
    LET deps == DOMAIN ext_depends(queue, current)
        stop == {m \in deps : ~OnlyBot(DepChannel(m)) \/ ~DepHasAsset(m)}
        first == CHOOSE m \in stop : \A m2 \in stop : m <= m2
    IN  IF stop = {} THEN "none"
        ELSE IF ~OnlyBot(DepChannel(first)) THEN "SystemExit"
        ELSE "MissingDependencyError"

\* the state right after lines 172-181
JustResolved ==
    \/ pc = "add" /\ next_add = 1
    \/ pc = "restore" /\ phases = <<>> /\ next_add = 1
       /\ origin \in {"SystemExit", "MissingDependencyError"}

\* C7: a listing of a channel that holds an asset not uploaded by
\* github-actions[bot] (type Bot) ends in SystemExit, never in a listing without
\* that asset; no caller catches it: the classifier returns nothing, staging
\* stages nothing, the upload publishes nothing, and the run ends with an error.
C7_UntrustedAborts ==
    /\ (pc = "loop" /\ i = 1 /\ last = "none") => \A c \in Channels : OnlyBot(c)
    /\ (pc = "exit" /\ i = 0) =>
          /\ fatal = "SystemExit"
          /\ \E c \in Channels : ~OnlyBot(c)
          /\ done = <<>> /\ skipped = <<>> /\ todo = <<>>
    /\ JustResolved => origin = ExpectedOfResolve
    /\ (user = GhaBot /\ pc = "clean" /\ FailedPhase /\ ~OnlyBot("failed"))
          => origin = "SystemExit"
    /\ origin = "SystemExit" =>
          /\ pc \in Unwinding \cup {"exit"}
          /\ uploaded = {}
          /\ pc = "exit" => fatal \in {"SystemExit", "CalledProcessError"}

\* the run ended by a listing that staging or an upload asked for
C7_Witness ==
    /\ pc = "exit"
    /\ i >= 1
    /\ origin = "SystemExit"
    /\ fatal = "SystemExit"

\* C8 as claimed: after a build phase exited non-zero (no timeout), as the bot,
\* staging-failed holds "<name>-<version>.failed" for every produced name of the
\* package, and run_build goes on with the next entry.
C8_MarkersPublished ==
    (user = GhaBot /\ FailedPhase /\ OnlyBot("failed")) =>
        /\ pc \in Unwinding =>
              \A item \in Range(current.packages) :
                  \E a \in chan["failed"] :
                      a.name = item \o <<"-">> \o current.version \o <<".", "failed">>
        /\ pc \in {"loop", "exit"} => (last = "BuildError" /\ fatal = "none")

\* C9: after a build phase timed out nothing is published for the package and
\* the run stops: no later entry of the todo list is begun.
C9_TimeoutStopsRun ==
    TimedOut =>
        /\ pc \in Unwinding \cup {"exit"}
        /\ origin = "BuildTimeoutError"
        /\ i <= Len(todo)
        /\ \A u \in uploaded : u.pkg # todo[i]
        /\ pc = "exit" => last \in {"BuildTimeoutError", "CalledProcessError"}

\* the run ended on the timeout of an entry that is not the last of the todo list
C9_Witness ==
    /\ pc = "exit"
    /\ TimedOut
    /\ last = "BuildTimeoutError"
    /\ i < Len(todo)

\* C10 as claimed: when a dependency has no matching asset, staging raises
\* MissingDependencyError before anything is downloaded or written to
\* pacman.conf, no build phase runs, nothing is published, and run_build goes on
\* with the next entry.
C10_MissingDependencySkips ==
    origin = "MissingDependencyError" =>
        /\ repo_root.files = {}
        /\ conf = conf0
        /\ phases = <<>>
        /\ uploaded = {}
        /\ pc \in {"loop", "exit"} =>
              (last = "MissingDependencyError" /\ fatal = "none")

(***************************************************************************)
(* Publishing (upload_asset and its callers), checked under Spec.          *)
(***************************************************************************)
IsBot(u) == u.login = "github-actions[bot]" /\ u.type = "Bot"

\* the step that runs the upload loop of lines 235-241 or of lines 245-249
Uploads == pc \in {"mark_failed", "publish"} /\ pc' = "clean"

\* the names the upload loop of the current step is to go through
ToUpload ==
    IF pc = "mark_failed" THEN failure_markers(current) ELSE build_outputs(current)

\* C11: under an identity that is not github-actions[bot] of type Bot every
\* upload_asset call returns normally and changes no channel: the loop calls it
\* for every name, no channel gains or loses an asset, and the only exception
\* after the loop is the BuildError that line 243 raises itself.
C11_NonBotUploadIsNoOp ==
    [][(Uploads /\ ~IsBot(user)) =>
          /\ chan' = chan
          /\ uploaded' = uploaded
          /\ Len(calls') = Len(calls) + Len(ToUpload)
          /\ exc' = IF pc = "mark_failed" THEN "BuildError" ELSE "none"]_vars

\* a user with the bot's login went through the uploads of a successful build
\* while a channel held a stranger's asset
C11_Witness ==
    /\ user.login = "github-actions[bot]"
    /\ user.type # "Bot"
    /\ pc = "clean"
    /\ Len(calls) > 1
    /\ exc = "none"
    /\ \E c \in Channels : ~OnlyBot(c)

OnePerName(c) == \A a, b \in chan[c] : a.name = b.name => a = b

\* C12 as claimed: channels hold at most one asset per name, and once the bot
\* has called upload_asset for a name on a channel of trusted assets, the
\* channel holds, under that name, the asset this call uploaded.
C12_UploadReplaces ==
    /\ \A c \in Channels : OnePerName(c)
    /\ (IsBot(user) /\ pc \in Unwinding) =>
          \A n \in DOMAIN calls :
              OnlyBot(calls[n].type) =>
                  /\ \E a \in chan[calls[n].type] : a.name = calls[n].name
                  /\ \E u \in uploaded :
                         u.type = calls[n].type /\ u.name = calls[n].name

(***************************************************************************)
(* The scopes of a package attempt (staging_dependencies, fresh_git_repo,  *)
(* backup_pacman_conf), checked under Spec.                                *)
(***************************************************************************)
\* the attempt has left the staging_dependencies scope
Left == pc \in {"dispatch", "loop", "exit"} /\ steps # <<>>

\* the positions of a step in the current attempt
At(step) == {n \in DOMAIN steps : steps[n] = step}

\* C14: whichever way an attempt leaves the staging scope, pacman.conf has been
\* put back (os.replace), the staging root deleted (the rmtree after the one of
\* line 169) and pacman -Suuy run, once each, and pacman -Suuy after both.
C14_AllReversalStepsRun ==
    Left =>
        /\ Cardinality(At("os.replace")) = 1
        /\ Cardinality(At("rmtree")) = 2
        /\ Cardinality(At("pacman -Suuy")) = 1
        /\ \A c \in At("pacman -Suuy") :
              /\ c = Len(steps)
              /\ \A a \in At("os.replace") : a < c
              /\ \A b \in At("rmtree") : b < c
        /\ conf = conf0
        /\ ~backup.exists
        /\ ~repo_root.exists

\* the second download failed after the first asset was staged
C14_Witness ==
    /\ pc = "dispatch"
    /\ origin = "RequestException"
    /\ next_add > 1
    /\ At("pacman -Suuy") # {}

\* C15 as claimed: when the attempt failed with a BuildError, BuildTimeoutError
\* or MissingDependencyError and a teardown step fails afterwards, the exception
\* that reaches run_build is still the first one, and run_build continues or
\* stops as it does for that one.
C15_OriginalErrorKept ==
    origin \in {"BuildError", "BuildTimeoutError", "MissingDependencyError"} =>
        /\ pc = "dispatch" => exc = origin
        /\ (pc \in {"loop", "exit"} /\ steps # <<>>) =>
              /\ last = origin
              /\ fatal = "none"
              /\ origin = "BuildTimeoutError" <=> (pc = "exit" /\ i <= Len(todo))

\* the steps of staging_dependencies up to its yield
StagingSteps == {"copyfile", "download", "repo-add", "pacman -Suy"}

\* the checkout of the attempt succeeded: the with-body was entered
CheckedOut == phases # <<>>

\* every step named first that the attempt made came before every one named second
Before(first, second) == \A a \in At(first), b \in At(second) : a < b

InAttempt == pc \notin {"start", "loop", "exit"}

\* the channel of a package's own repo: staging-msys for MSYS2*, else staging-mingw
OwnChannel(pkg) ==
    IF Head(pkg.repo_url[Len(pkg.repo_url)]) = "MSYS2" THEN "msys" ELSE "mingw"

BothPhasesOk ==
    /\ Len(phases) = 2
    /\ phases[1].result = "ok" /\ phases[2].result = "ok"

\* the files makepkg leaves for a package: one per produced name, and the
\* source archive
IsOutputOf(name, pkg) ==
    \/ \E item \in Range(pkg.packages) : IsPackageFileOf(name, item, pkg.version)
    \/ name = pkg.name \o <<"-">> \o pkg.version \o <<".", "src", ".", "tar", ".", "gz">>

\* C17: upload_asset is called for an output of a package, and an output is
\* published, only after both phases of that package succeeded, and only with
\* the channel of the package's own repo; a failed or timed-out phase is
\* followed by no upload of an output, and a failure marker is uploaded only
\* after a phase failed.
C17_PublishOnlyAfterSuccess ==
    /\ InAttempt =>
          \A n \in DOMAIN calls :
              IF calls[n].type = "failed"
              THEN FailedPhase
              ELSE /\ BothPhasesOk
                   /\ calls[n].type = OwnChannel(current)
                   /\ IsOutputOf(calls[n].name, current)
    /\ (InAttempt /\ TimedOut) => calls = <<>>
    /\ \A u \in uploaded :
          /\ u.type # "failed" =>
                u.type = OwnChannel(queue[u.pkg]) /\ IsOutputOf(u.name, queue[u.pkg])
          /\ (InAttempt /\ u.pkg = todo[i]) =>
                IF u.type = "failed" THEN FailedPhase ELSE BothPhasesOk

\* every output of a built mingw package that depends on an msys package has
\* been handed to upload_asset
C17_Witness ==
    /\ pc = "clean"
    /\ BothPhasesOk
    /\ OwnChannel(current) = "mingw"
    /\ \E m \in DOMAIN to_add : to_add[m].repo_type = "msys"
    /\ Len(calls) = Len(current.packages) + 1
    /\ \A n \in DOMAIN calls : calls[n].type = "mingw"

(***************************************************************************)
(* The time budget (timeoutgen), checked under Spec.                       *)
(***************************************************************************)
\* C18: every makepkg phase of the run is given max(deadline - now, 0) as its
\* timeout, for the one deadline BUILD_TIMEOUT seconds after the start: never
\* negative, never more than the phase before it was given, whichever package
\* the two phases belong to, and zero once the phase before it was given zero.
C18_TimeoutShrinks ==
    /\ [](\A n \in DOMAIN given :
             /\ given[n].timeout >= 0
             /\ given[n].timeout =
                   IF given[n].at < 18000 THEN 18000 - given[n].at ELSE 0)
    /\ [][\A a \in DOMAIN given, b \in DOMAIN given' :
             given' # given =>
                 /\ given[a].timeout >= given'[b].timeout
                 /\ given[a].timeout = 0 => given'[b].timeout = 0]_vars

\* the first phase of a later package started after the deadline had passed
C18_Witness ==
    /\ i > 1
    /\ Len(phases) = 1
    /\ given # <<>>
    /\ given[1].at > 18000
    /\ given[1].timeout = 0

(***************************************************************************)
(* The staged repository (staging_dependencies up to its yield), checked   *)
(* under Spec.                                                             *)
(***************************************************************************)
\* staging_dependencies has yielded to the with-body
AtYield == pc = "checkout"

\* file f of the staging root is an asset of the m-th dependency of the current
\* package: named "<name>-<version>-...", held by the channel of the
\* dependency's own repo, and stored under that channel's directory
StagedFor(f, m) ==
    LET d == ext_depends(queue, current)[m]
        prefix == d.name \o <<"-">> \o queue[d.pkg].version \o <<"-">>
    IN  /\ starts_with(f.name, prefix)
        /\ \E a \in chan[OwnChannel(queue[d.pkg])] : a.name = f.name
        /\ Head(f.dir) = OwnChannel(queue[d.pkg])

\* the stanza add_to_repo writes for a subdirectory of the staging root
ServerLine(dir) == <<"Server=", "file://", "/", "_REPO", "/">> \o dir

\* C19: when staging_dependencies yields, the staging root holds one file for
\* every resolved dependency of the package and no other file, each an asset
\* "<dependency name>-<dependency version>-*" of the channel of the
\* dependency's own repo, and pacman.conf is the original file preceded by one
\* three-line stanza for every subdirectory that holds a file.
C19_StagedExactlyDeps ==
    AtYield =>
        LET deps == DOMAIN ext_depends(queue, current)
            dirs == {f.dir : f \in repo_root.files}
        IN  /\ repo_root.exists
            /\ Cardinality(repo_root.files) = Cardinality(deps)
            /\ \A m \in deps :
                  Cardinality({f \in repo_root.files : StagedFor(f, m)}) = 1
            /\ \A f \in repo_root.files : \E m \in deps : StagedFor(f, m)
            /\ Len(conf) = Len(conf0) + 3 * Cardinality(dirs)
            /\ SubSeq(conf, Len(conf) - Len(conf0) + 1, Len(conf)) = conf0
            /\ \A dir \in dirs :
                  Cardinality({n \in DOMAIN conf : conf[n] = ServerLine(dir)}) = 1

\* two dependencies were staged in one subdirectory
C19_Witness ==
    /\ AtYield
    /\ Cardinality(repo_root.files) = 2
    /\ Cardinality({f.dir : f \in repo_root.files}) = 1
    /\ Len(conf) = Len(conf0) + 3

(***************************************************************************)
(* Dependents within one run (run_build), checked under Spec.              *)
(***************************************************************************)
\* the m-th dependency of queue entry n has an asset in the channel of its repo
Published(n, m) ==
    LET d == ext_depends(queue, queue[n])[m]
    IN  \E a \in chan[OwnChannel(queue[d.pkg])] :
           IsPackageFileOf(a.name, d.name, queue[d.pkg].version)

\* the k-th entry of the todo list depends on the one before it, which has no
\* asset for the name the dependency asks for
DependsOnPrevious(k) ==
    /\ k > 1 /\ k <= Len(todo)
    /\ \E m \in DOMAIN DepsOf(todo[k]) :
          DepsOf(todo[k])[m] = todo[k - 1] /\ ~Published(todo[k], m)

\* C20 as claimed: a build phase is started only when every resolved dependency
\* of the package had an asset when it was staged; and when an entry A of the
\* todo list fails or misses a dependency, and the next entry B depends on A,
\* which has no asset, the run does not end at A, and B's attempt raises
\* MissingDependencyError with no phase started and no marker uploaded, and
\* the run goes on after B.
C20_DependentStillAttempted ==
    /\ (InAttempt /\ phases # <<>>) =>
          \A m \in DOMAIN DepsOf(todo[i]) : Published(todo[i], m)
    /\ (pc = "exit" /\ DependsOnPrevious(i + 1))
          => ~(FailedPhase \/ origin = "MissingDependencyError")
    /\ (DependsOnPrevious(i) /\ last \in {"BuildError", "MissingDependencyError"}) =>
          /\ pc \in Unwinding =>
                origin = "MissingDependencyError" /\ phases = <<>> /\ calls = <<>>
          /\ pc = "dispatch" => exc = "MissingDependencyError"

====
